---- MODULE Spec2Model ----
(***************************************************************************)
(* A model of poliastro's body records (poliastro/bodies.py) and of the    *)
(* CZML extractor's orbit and ground-station packets                       *)
(* (poliastro/czml/extract_czml.py).                                       *)
(*                                                                         *)
(* Numbers are exact rationals.  A quantity is a record                    *)
(*   [n, d, pi, unit, const]  standing for  (n/d) * pi^pi  unit,           *)
(* d = 0 being numpy's inf (the value of a float division by zero), and    *)
(* const telling an astropy Constant from a plain Quantity.                *)
(***************************************************************************)
EXTENDS Integers, Sequences, FiniteSets, TLC

\* ------------------------------------------------------------------ bounds
\* Calls made in one run.
MaxCalls == 2

\* ------------------------------------------------------------ exact numbers
Abs(x) == IF x < 0 THEN -x ELSE x

RECURSIVE GCD(_, _)
GCD(a, b) == IF b = 0 THEN a ELSE GCD(b, a % b)

\* The fraction n/d in lowest terms with a positive denominator; d = 0 is inf.
Rat(n, d) ==
    IF d = 0 THEN [n |-> 1, d |-> 0]
    ELSE LET g == GCD(Abs(n), Abs(d))
             s == IF d < 0 THEN -1 ELSE 1
         IN  [n |-> s * (n \div g), d |-> s * (d \div g)]

None == "None"

\* ------------------------------------------------------------- quantities
\* astropy Quantity(value, unit): a plain quantity.
Quantity(n, d, unit) ==
    [n |-> Rat(n, d).n, d |-> Rat(n, d).d, pi |-> 0, unit |-> unit, const |-> FALSE]

\* An astropy Constant, as poliastro.constants and astropy.constants hold them.
Constant(n, d, unit) == [Quantity(n, d, unit) EXCEPT !.const = TRUE]

\* bodies.py _q: a Constant becomes a normal Quantity of the same value and unit.
_q(c) == [c EXCEPT !.const = FALSE]

\* Unit of a quotient: equal units cancel, anything else is kept as written.
UnitDiv(u1, u2) ==
    IF u1 = u2 THEN "1" ELSE IF u2 = "1" THEN u1 ELSE u1 \o " / (" \o u2 \o ")"

\* Quantity / quantity, as numpy true_divide computes it on floats: a zero
\* divisor gives inf (with a RuntimeWarning), never an exception.
QDiv(a, b) ==
    [n     |-> Rat(a.n * b.d, a.d * b.n).n,
     d     |-> Rat(a.n * b.d, a.d * b.n).d,
     pi    |-> a.pi - b.pi,
     unit  |-> UnitDiv(a.unit, b.unit),
     const |-> FALSE]

\* A plain number r (a fraction) times a quantity: the unit is the quantity's.
QScale(r, q) ==
    [n     |-> Rat(r.n * q.n, r.d * q.d).n,
     d     |-> Rat(r.n * q.n, r.d * q.d).d,
     pi    |-> q.pi,
     unit  |-> q.unit,
     const |-> FALSE]

\* Quantity.to(unit): days to seconds and kilometres to metres rescale the
\* value; a quantity already in the unit keeps its value.
To(q, unit) ==
    CASE q.unit = unit            -> _q(q)
      [] q.unit = "d" /\ unit = "s" -> [QScale(Rat(86400, 1), q) EXCEPT !.unit = "s"]
      [] q.unit = "s" /\ unit = "d" -> [QScale(Rat(1, 86400), q) EXCEPT !.unit = "d"]
      [] q.unit = "km" /\ unit = "m" -> [QScale(Rat(1000, 1), q) EXCEPT !.unit = "m"]

IsInf(q) == q.d = 0

\* 2 * math.pi * u.rad
TwoPiRad == [n |-> 2, d |-> 1, pi |-> 1, unit |-> "rad", const |-> FALSE]

\* astropy.constants.G, in model units.
G == Constant(2, 1, "m3 / (kg s2)")

\* None, where a quantity may stand.
NoneQ == [n |-> 0, d |-> 0, pi |-> 0, unit |-> "None", const |-> FALSE]
\* None, where a plain number may stand.
NoneR == [n |-> 0, d |-> 0]

\* ------------------------------------------------------------------ bodies
\* poliastro.constants, in model units: one entry per constant bodies.py reads.
constants ==
    [GM_sun |-> Constant(20, 1, "km3 / s2"), R_sun |-> Constant(9, 1, "km"),
     rotational_period_sun |-> Constant(25, 1, "d"), J2_sun |-> Constant(1, 5, "1"),
     M_sun |-> Constant(10, 1, "kg"),
     GM_mercury |-> Constant(1, 1, "km3 / s2"), R_mercury |-> Constant(2, 1, "km"),
     R_mean_mercury |-> Constant(2, 1, "km"), R_polar_mercury |-> Constant(2, 1, "km"),
     rotational_period_mercury |-> Constant(58, 1, "d"),
     GM_venus |-> Constant(5, 1, "km3 / s2"), R_venus |-> Constant(6, 1, "km"),
     R_mean_venus |-> Constant(6, 1, "km"), R_polar_venus |-> Constant(6, 1, "km"),
     rotational_period_venus |-> Constant(-243, 1, "d"),
     J2_venus |-> Constant(1, 7, "1"), J3_venus |-> Constant(-1, 9, "1"),
     GM_earth |-> Constant(6, 1, "km3 / s2"), R_earth |-> Constant(6, 1, "km"),
     R_mean_earth |-> Constant(6, 1, "km"), R_polar_earth |-> Constant(5, 1, "km"),
     rotational_period_earth |-> Constant(1, 1, "d"), M_earth |-> Constant(3, 1, "kg"),
     J2_earth |-> Constant(1, 3, "1"), J3_earth |-> Constant(-1, 4, "1"),
     GM_mars |-> Constant(2, 1, "km3 / s2"), R_mars |-> Constant(3, 1, "km"),
     R_mean_mars |-> Constant(3, 1, "km"), R_polar_mars |-> Constant(3, 1, "km"),
     rotational_period_mars |-> Constant(1, 1, "d"),
     J2_mars |-> Constant(1, 2, "1"), J3_mars |-> Constant(1, 6, "1"),
     GM_jupiter |-> Constant(16, 1, "km3 / s2"), R_jupiter |-> Constant(8, 1, "km"),
     R_mean_jupiter |-> Constant(8, 1, "km"), R_polar_jupiter |-> Constant(7, 1, "km"),
     rotational_period_jupiter |-> Constant(1, 2, "d"), M_jupiter |-> Constant(8, 1, "kg"),
     GM_saturn |-> Constant(12, 1, "km3 / s2"), R_saturn |-> Constant(7, 1, "km"),
     R_mean_saturn |-> Constant(7, 1, "km"), R_polar_saturn |-> Constant(6, 1, "km"),
     rotational_period_saturn |-> Constant(1, 2, "d"),
     GM_uranus |-> Constant(8, 1, "km3 / s2"), R_uranus |-> Constant(5, 1, "km"),
     R_mean_uranus |-> Constant(5, 1, "km"), R_polar_uranus |-> Constant(5, 1, "km"),
     rotational_period_uranus |-> Constant(-3, 4, "d"),
     GM_neptune |-> Constant(9, 1, "km3 / s2"), R_neptune |-> Constant(5, 1, "km"),
     R_mean_neptune |-> Constant(5, 1, "km"), R_polar_neptune |-> Constant(5, 1, "km"),
     rotational_period_neptune |-> Constant(2, 3, "d"),
     GM_pluto |-> Constant(1, 2, "km3 / s2"), R_pluto |-> Constant(1, 1, "km"),
     R_mean_pluto |-> Constant(1, 1, "km"), R_polar_pluto |-> Constant(1, 1, "km"),
     rotational_period_pluto |-> Constant(-6, 1, "d"),
     GM_moon |-> Constant(1, 3, "km3 / s2"), R_moon |-> Constant(2, 1, "km"),
     R_mean_moon |-> Constant(2, 1, "km"), R_polar_moon |-> Constant(2, 1, "km"),
     rotational_period_moon |-> Constant(27, 1, "d")]

\* Body.__new__'s keyword defaults.
R_default == Quantity(0, 1, "km")
rotational_period_default == Quantity(0, 1, "d")
J_default == Quantity(0, 1, "1")

\* A faulty variant of Body.__new__: the mass is always derived from k, a
\* supplied mass being dropped.
Body_mass_always_derived(parent, k, name, symbol, R, R_polar, R_mean, rotational_period, J2, J3, mass) ==
    [parent            |-> parent,
     k                 |-> _q(k),
     name              |-> name,
     symbol            |-> symbol,
     R                 |-> _q(R),
     R_polar           |-> _q(R_polar),
     R_mean            |-> _q(R_mean),
     rotational_period |-> _q(rotational_period),
     J2                |-> _q(J2),
     J3                |-> _q(J3),
     mass              |-> _q(QDiv(k, G))]

\* Body.__new__: the namedtuple's eleven fields, a missing mass being k / G.
Body(parent, k, name, symbol, R, R_polar, R_mean, rotational_period, J2, J3, mass) ==
    [parent            |-> parent,
     k                 |-> _q(k),
     name              |-> name,
     symbol            |-> symbol,
     R                 |-> _q(R),
     R_polar           |-> _q(R_polar),
     R_mean            |-> _q(R_mean),
     rotational_period |-> _q(rotational_period),
     J2                |-> _q(J2),
     J3                |-> _q(J3),
     mass              |-> _q(IF mass = NoneQ THEN QDiv(k, G) ELSE mass)]

\* class SolarSystemBody(Body): pass
SolarSystemBody(parent, k, name, symbol, R, R_polar, R_mean, rotational_period, J2, J3, mass) ==
    Body(parent, k, name, symbol, R, R_polar, R_mean, rotational_period, J2, J3, mass)

\* The predefined bodies.  A parent is held by the parent body's name (None for
\* the Sun): the records are immutable values, so the name stands for the record.
Sun ==
    SolarSystemBody(None, constants.GM_sun, "Sun", "sun", constants.R_sun,
                    R_default, R_default, constants.rotational_period_sun,
                    _q(constants.J2_sun), J_default, _q(constants.M_sun))
Mercury ==
    SolarSystemBody("Sun", constants.GM_mercury, "Mercury", "mercury", constants.R_mercury,
                    constants.R_polar_mercury, constants.R_mean_mercury,
                    constants.rotational_period_mercury, J_default, J_default, NoneQ)
Venus ==
    SolarSystemBody("Sun", constants.GM_venus, "Venus", "venus", constants.R_venus,
                    constants.R_polar_venus, constants.R_mean_venus,
                    constants.rotational_period_venus,
                    _q(constants.J2_venus), _q(constants.J3_venus), NoneQ)
Earth ==
    SolarSystemBody("Sun", constants.GM_earth, "Earth", "earth", constants.R_earth,
                    constants.R_polar_earth, constants.R_mean_earth,
                    constants.rotational_period_earth,
                    _q(constants.J2_earth), _q(constants.J3_earth), _q(constants.M_earth))
Mars ==
    SolarSystemBody("Sun", constants.GM_mars, "Mars", "mars", constants.R_mars,
                    constants.R_polar_mars, constants.R_mean_mars,
                    constants.rotational_period_mars,
                    _q(constants.J2_mars), _q(constants.J3_mars), NoneQ)
Jupiter ==
    SolarSystemBody("Sun", constants.GM_jupiter, "Jupiter", "jupiter", constants.R_jupiter,
                    constants.R_polar_jupiter, constants.R_mean_jupiter,
                    constants.rotational_period_jupiter, J_default, J_default,
                    _q(constants.M_jupiter))
Saturn ==
    SolarSystemBody("Sun", constants.GM_saturn, "Saturn", "saturn", constants.R_saturn,
                    constants.R_polar_saturn, constants.R_mean_saturn,
                    constants.rotational_period_saturn, J_default, J_default, NoneQ)
Uranus ==
    SolarSystemBody("Sun", constants.GM_uranus, "Uranus", "uranus", constants.R_uranus,
                    constants.R_polar_uranus, constants.R_mean_uranus,
                    constants.rotational_period_uranus, J_default, J_default, NoneQ)
Neptune ==
    SolarSystemBody("Sun", constants.GM_neptune, "Neptune", "neptune", constants.R_neptune,
                    constants.R_polar_neptune, constants.R_mean_neptune,
                    constants.rotational_period_neptune, J_default, J_default, NoneQ)
Pluto ==
    SolarSystemBody("Sun", constants.GM_pluto, "Pluto", "pluto", constants.R_pluto,
                    constants.R_polar_pluto, constants.R_mean_pluto,
                    constants.rotational_period_pluto, J_default, J_default, NoneQ)
\* A faulty variant of Moon: the body is given as its own parent.
Moon_own_parent ==
    SolarSystemBody("Moon", constants.GM_moon, "Moon", "moon", constants.R_moon,
                    constants.R_polar_moon, constants.R_mean_moon,
                    constants.rotational_period_moon, J_default, J_default, NoneQ)
Moon ==
    SolarSystemBody("Earth", constants.GM_moon, "Moon", "moon", constants.R_moon,
                    constants.R_polar_moon, constants.R_mean_moon,
                    constants.rotational_period_moon, J_default, J_default, NoneQ)

\* The names poliastro.bodies binds at import, each to its body.
Registry ==
    [Sun |-> Sun, Mercury |-> Mercury, Venus |-> Venus, Earth |-> Earth, Mars |-> Mars,
     Jupiter |-> Jupiter, Saturn |-> Saturn, Uranus |-> Uranus, Neptune |-> Neptune,
     Pluto |-> Pluto, Moon |-> Moon]

\* Body.angular_velocity: 2 pi rad over the rotational period in seconds.
angular_velocity(self) == QDiv(TwoPiRad, To(self.rotational_period, "s"))

\* Attribute lookup on a Body: the namedtuple's fields and the class's
\* properties exist, any other name raises AttributeError.
Properties == {"angular_velocity"}
HasAttr(self, attr) == attr \in DOMAIN self \cup Properties
GetAttr(self, attr) ==
    IF attr \in DOMAIN self THEN self[attr] ELSE angular_velocity(self)

\* What astropy's quantity_input accepts for from_parameters: k in km3 / s2
\* (or an equivalent unit), R in km.
quantity_input(k, R) == k.unit = "km3 / s2" /\ R.unit = "km"

\* Body.from_parameters(parent, k, name, symbol, R, **kwargs), once validated.
from_parameters(parent, k, name, symbol, R, kwargs) ==
    Body(parent, k, name, symbol, R, R_default, R_default,
         IF kwargs.rotational_period = NoneQ THEN rotational_period_default
         ELSE kwargs.rotational_period,
         J_default, J_default, kwargs.mass)

\* Body.from_relative(reference, parent, k, name, symbol, R, **kwargs) where
\* both ratios are numbers: k and R are the ratios times the reference's values.
from_relative(reference, parent, k, name, symbol, R, kwargs) ==
    Body(parent, QScale(k, reference.k), name, symbol, QScale(R, reference.R),
         R_default, R_default,
         IF kwargs.rotational_period = NoneQ THEN rotational_period_default
         ELSE kwargs.rotational_period,
         J_default, J_default, kwargs.mass)

\* ------------------------------------------------------- times and orbits
\* astropy Time: an instant (whole days here) and the format it prints in.
Time(jd, format) == [jd |-> jd, format |-> format]

\* CZMLExtractor.format_date: the same instant, in ISO 8601 ("isot") format.
format_date(date) == Time(date.jd, "isot")

\* Time.value: the text of an instant; only an isot time prints as ISO 8601.
Value(t) ==
    IF t.format = "isot" THEN ToString(t.jd) \o "T00:00:00.000" ELSE ToString(t.jd)

\* Python's min(a, b) on two times: b only when b < a.
min(a, b) == IF b.jd < a.jd THEN b ELSE a

\* t1 - t0 for two times: a TimeDelta, held in days.
TimeDiff(t1, t0) == Quantity(t1.jd - t0.jd, 1, "d")

\* TimeDelta(q) of a quantity of time: held in days.
TimeDelta(q) == To(q, "d")

RAdd(a, b) == Rat(a.n * b.d + b.n * a.d, a.d * b.d)
RMul(a, b) == Rat(a.n * b.n, a.d * b.d)
Val(q) == [n |-> q.n, d |-> q.d]

\* Where the orbit is after the time td, one coordinate (km) per axis.  The
\* propagator is outside the sources; uniform motion along v stands for it.
propagate(orbit, td) ==
    [j \in 1..3 |->
        LET x == RAdd(Rat(orbit.r[j], 1), RMul(Rat(orbit.v[j], 1), Val(To(td, "s"))))
        IN  Quantity(x.n, x.d, "km")]

\* Orbit.propagate(td): a new orbit, td later; the argument is left as it was.
Orbit_propagate(orbit, td) ==
    [attractor |-> orbit.attractor,
     r         |-> [j \in 1..3 |-> orbit.r[j] + orbit.v[j] * Val(To(td, "s")).n],
     v         |-> orbit.v,
     epoch     |-> Time(orbit.epoch.jd + Val(td).n, orbit.epoch.format)]

\* ----------------------------------------------------------- dictionaries
EmptyDict == [x \in {} |-> 0]

\* d[key] = val
Assign(d, key, val) == [x \in DOMAIN d \cup {key} |-> IF x = key THEN val ELSE d[x]]

\* for t in tups: curr[t[0]] = t[1]
RECURSIVE AssignAll(_, _)
AssignAll(d, tups) ==
    IF tups = <<>> THEN d
    ELSE AssignAll(Assign(d, Head(tups)[1], Head(tups)[2]), Tail(tups))

\* CZMLExtractor.parse_dict_tuples: walk path with setdefault, then assign.
RECURSIVE parse_dict_tuples(_, _, _)
parse_dict_tuples(dict, path, tups) ==
    IF path = <<>> THEN AssignAll(dict, tups)
    ELSE LET p    == Head(path)
             curr == IF p \in DOMAIN dict THEN dict[p] ELSE EmptyDict
         IN  Assign(dict, p, parse_dict_tuples(curr, Tail(path), tups))

\* czml_extract_default_params.DEFAULTS: outside the sources, so a packet
\* holds only what the extractor writes into it.
DEFAULTS == EmptyDict

\* The key of orbit i's packet (the document's is -1).
Key(i) == ToString(i)

\* czml_extract_default_params.GROUNDSTATION_DEFAULTS: outside the sources, so
\* a ground-station packet holds only what the extractor writes into it.
GROUNDSTATION_DEFAULTS == EmptyDict

\* czml_extract_default_params.CUSTOM_PACKET: outside the sources; the entries
\* _change_custom_params writes to, as they are before it writes.
CUSTOM_PACKET ==
    [id         |-> "custom_properties",
     properties |-> [custom_attractor |-> FALSE,
                     ellipsoid        |-> << [array |-> <<>>] >>,
                     map_url          |-> None]]

\* "GS" + str(i), the key of ground station i's packet.
GSKey(i) == "GS" \o ToString(i)

\* ------------------------------------------------- ellipsoidal coordinates
\* isinstance(x, u.quantity.Quantity): a quantity has a unit, a plain number
\* (a fraction n/d) has none.
isinstance_Quantity(x) == "unit" \in DOMAIN x

\* An angle in whole degrees: a quantity in deg or rad (a multiple of pi), or
\* a plain number, which numpy reads as radians (only 0 is a whole degree).
Degrees(x) ==
    CASE ~isinstance_Quantity(x) /\ x.n = 0 -> 0
      [] isinstance_Quantity(x) /\ x.unit = "deg" -> x.n \div x.d
      [] isinstance_Quantity(x) /\ x.unit = "rad" /\ (x.pi = 1 \/ x.n = 0) ->
            (180 * x.n) \div x.d

\* np.sin and np.cos at the multiples of 90 degrees, where they are exact.
Sin(x) == CASE Degrees(x) % 360 = 0   -> Rat(0, 1)
            [] Degrees(x) % 360 = 90  -> Rat(1, 1)
            [] Degrees(x) % 360 = 180 -> Rat(0, 1)
            [] Degrees(x) % 360 = 270 -> Rat(-1, 1)
Cos(x) == CASE Degrees(x) % 360 = 0   -> Rat(1, 1)
            [] Degrees(x) % 360 = 90  -> Rat(0, 1)
            [] Degrees(x) % 360 = 180 -> Rat(-1, 1)
            [] Degrees(x) % 360 = 270 -> Rat(0, 1)

\* a - b on fractions.
RSub(a, b) == Rat(a.n * b.d - b.n * a.d, a.d * b.d)
\* a / b on fractions.
RDiv(a, b) == Rat(a.n * b.d, a.d * b.n)
\* np.sqrt of a fraction that is a square.
Sqrt(r) ==
    [n |-> CHOOSE x \in 0..r.n : x * x = r.n, d |-> CHOOSE x \in 0..r.d : x * x = r.d]

\* poliastro.czml.utils.ellipsoidal_to_cartesian(a, b, lat, lon): the point of
\* zero elevation on the ellipsoid of semi-axes a, b.  The function is outside
\* the sources; the geodetic formula stands for it.
ellipsoidal_to_cartesian(a, b, lat, lon) ==
    LET ratio == RDiv(Rat(b, 1), Rat(a, 1))
        e2    == RSub(Rat(1, 1), RMul(ratio, ratio))
        N_    == RDiv(Rat(a, 1),
                      Sqrt(RSub(Rat(1, 1), RMul(e2, RMul(Sin(lat), Sin(lat))))))
    IN  << RMul(N_, RMul(Cos(lat), Cos(lon))),
           RMul(N_, RMul(Cos(lat), Sin(lon))),
           RMul(RMul(RSub(Rat(1, 1), e2), N_), Sin(lat)) >>

\* What the call ellipsoidal_to_cartesian(...) followed by x.value on each
\* coordinate can do: with two quantities it returns; with a plain number in
\* place of one, the function being outside the sources, it either returns or
\* fails on a coordinate that is no quantity (AttributeError).
to_cartesian_outcomes(lat, lon) ==
    IF isinstance_Quantity(lat) /\ isinstance_Quantity(lon) THEN {"ok"}
    ELSE {"ok", "AttributeError"}

\* ------------------------------------------------------------------- state
VARIABLES
    registry,     \* poliastro.bodies' predefined bodies, by name
    made,         \* the bodies built since, in the order built
    start_epoch,  \* CZMLExtractor.start_epoch
    end_epoch,    \* CZMLExtractor.end_epoch
    N,            \* CZMLExtractor.N, the default sample count
    orbits,       \* CZMLExtractor.orbits: <<orbit, N, epoch>> per orbit
    i,            \* CZMLExtractor.i, the number of orbit packets
    czml,         \* CZMLExtractor.czml: packet key -> packet
    gs_n,         \* CZMLExtractor.gs_n, the number of ground-station packets
    cust_prop,    \* CZMLExtractor.cust_prop: <<ellipsoid, pr_map>>
    cust_czml,    \* CZMLExtractor.cust_czml: the custom-properties packet
    res,          \* the last call: what was called, with what, and its outcome
    calls         \* the number of calls made so far

bodyVars == <<registry, made>>
extractorVars == <<start_epoch, end_epoch, N, orbits, i, czml, gs_n, cust_prop, cust_czml>>
vars ==
    <<registry, made, start_epoch, end_epoch, N, orbits, i, czml, gs_n, cust_prop,
      cust_czml, res, calls>>

\* ------------------------------------------------------ the orbit packets
\* CZMLExtractor._init_orbit_packet_cords_: N + 2 samples, h apart, each a
\* time tag and the position in metres, appended to the packet's cartesian.
RECURSIVE cords_loop(_, _, _, _, _)
cords_loop(cartesian, orbit, h, k, stop) ==
    IF k = stop THEN cartesian
    ELSE LET position == propagate(orbit, TimeDelta(QScale(Rat(k, 1), h)))
             cords    == [j \in 1..3 |-> Val(To(position[j], "m"))]
             tagged   == <<RMul(Val(h), Rat(k, 1))>> \o cords
         IN  cords_loop(cartesian \o tagged, orbit, h, k + 1, stop)

\* A faulty variant of _init_orbit_packet_cords_: range(N + 1), one sample short.
_init_orbit_packet_cords_short(c, orbs, end, n) ==
    LET h == QScale(Rat(1, orbs[n + 1][2]), To(TimeDiff(end, orbs[n + 1][3]), "s"))
        cartesian == cords_loop(c[Key(n)]["position"]["cartesian"], orbs[n + 1][1], h,
                                0, orbs[n + 1][2] + 1)
    IN  parse_dict_tuples(c, <<Key(n), "position">>, << <<"cartesian", cartesian>> >>)

_init_orbit_packet_cords_(c, orbs, end, n) ==
    LET h == QScale(Rat(1, orbs[n + 1][2]), To(TimeDiff(end, orbs[n + 1][3]), "s"))
        cartesian == cords_loop(c[Key(n)]["position"]["cartesian"], orbs[n + 1][1], h,
                                0, orbs[n + 1][2] + 2)
    IN  parse_dict_tuples(c, <<Key(n), "position">>, << <<"cartesian", cartesian>> >>)

\* CZMLExtractor._init_orbit_packet_
_init_orbit_packet_(c, orbs, start, end, n) ==
    LET c0 == Assign(c, Key(n), DEFAULTS)
        s  == format_date(min(orbs[n + 1][3], start))
        c1 == parse_dict_tuples(c0, <<Key(n)>>,
                  << <<"id", ToString(n)>>,
                     <<"availability", Value(s) \o "/" \o Value(end)>> >>)
        c2 == parse_dict_tuples(c1, <<Key(n), "path", "show">>,
                  << <<"interval", Value(s) \o "/" \o Value(end)>> >>)
        c3 == parse_dict_tuples(c2, <<Key(n), "position">>,
                  << <<"interpolationAlgorithm", "LAGRANGE">>,
                     <<"interpolationDegree", 5>>,
                     <<"referenceFrame", "INERTIAL">>,
                     <<"epoch", Value(s)>>,
                     <<"cartesian", <<>> >> >>)
    IN  _init_orbit_packet_cords_(c3, orbs, end, n)

\* parse_dict_tuples(path, [(key, val)]) unless val is None
SetUnlessNone(c, path, key, val) ==
    IF val = None THEN c ELSE parse_dict_tuples(c, path, << <<key, val>> >>)

\* CZMLExtractor._change_id_params_
_change_id_params_(c, n, o_id, name, description) ==
    LET c1 == SetUnlessNone(c, <<Key(n)>>, "id", o_id)
        c2 == SetUnlessNone(c1, <<Key(n)>>, "name", name)
    IN  SetUnlessNone(c2, <<Key(n)>>, "description", description)

\* CZMLExtractor._change_path_params_
_change_path_params_(c, n, pixel_offset, color, width, show) ==
    LET c1 == SetUnlessNone(c, <<Key(n), "label", "pixelOffset">>, "cartesian2", pixel_offset)
        c2 == SetUnlessNone(c1, <<Key(n), "path", "material", "solidColor", "color">>,
                            "rgba", color)
        c3 == SetUnlessNone(c2, <<Key(n), "path">>, "width", width)
    IN  SetUnlessNone(c3, <<Key(n), "path", "show">>, "boolean", show)

\* CZMLExtractor._change_label_params_
_change_label_params_(c, n, fill_color, outline_color, font, text, show) ==
    LET c1 == SetUnlessNone(c, <<Key(n), "label", "fillColor">>, "rgba", fill_color)
        c2 == SetUnlessNone(c1, <<Key(n), "label", "outlineColor">>, "rgba", outline_color)
        c3 == SetUnlessNone(c2, <<Key(n), "label">>, "font", font)
        c4 == SetUnlessNone(c3, <<Key(n), "label">>, "text", text)
    IN  SetUnlessNone(c4, <<Key(n), "label">>, "show", show)

\* CZMLExtractor._init_czml_: the document packet.
_init_czml_(c, start, end) ==
    LET c1 == parse_dict_tuples(c, <<Key(-1)>>,
                  << <<"id", "document">>, <<"name", "simple">>, <<"version", "1.0">> >>)
    IN  parse_dict_tuples(c1, <<Key(-1), "clock">>,
            << <<"interval", Value(start) \o "/" \o Value(end)>>,
               <<"currentTime", Value(start)>>,
               <<"multiplier", 60>>,
               <<"range", "LOOP_STOP">>,
               <<"step", "SYSTEM_CLOCK_MULTIPLIER">> >>)

\* ------------------------------------------------ ground-station packets
\* CZMLExtractor._init_ground_station_packet_
_init_ground_station_packet_(c, start, end, n, pos) ==
    LET c0 == Assign(c, GSKey(n), GROUNDSTATION_DEFAULTS)
        c1 == parse_dict_tuples(c0, <<GSKey(n)>>,
                  << <<"id", GSKey(n)>>,
                     <<"availability", Value(start) \o "/" \o Value(end)>> >>)
    IN  parse_dict_tuples(c1, <<GSKey(n), "position">>, << <<"cartesian", pos>> >>)

\* CZMLExtractor._change_ground_station_params_: the description, like the
\* name, is written to the key "name".
_change_ground_station_params_(c, n, id_name, id_description, label_fill_color, label_font, label_outline_color, label_text, label_show) ==
    LET c1 == SetUnlessNone(c, <<GSKey(n)>>, "name", id_name)
        c2 == SetUnlessNone(c1, <<GSKey(n)>>, "name", id_description)
        c3 == SetUnlessNone(c2, <<GSKey(n), "label", "fillColor">>, "rgba", label_fill_color)
        c4 == SetUnlessNone(c3, <<GSKey(n), "label", "outlineColor">>, "rgba",
                            label_outline_color)
        c5 == SetUnlessNone(c4, <<GSKey(n), "label">>, "font", label_font)
        c6 == SetUnlessNone(c5, <<GSKey(n), "label">>, "text", label_text)
    IN  SetUnlessNone(c6, <<GSKey(n), "label">>, "show", label_show)

\* CZMLExtractor._change_custom_params: the ellipsoid and the map's URL go
\* into the custom-properties packet.
_change_custom_params(cc, ellipsoid, pr_map) ==
    LET c1 == [cc EXCEPT ![Key(-1)]["properties"]["ellipsoid"][1]["array"] = ellipsoid]
        c2 == parse_dict_tuples(c1, <<Key(-1), "properties">>,
                  << <<"custom_attractor", TRUE>> >>)
    IN  parse_dict_tuples(c2, <<Key(-1), "properties">>, << <<"map_url", pr_map>> >>)

\* Python's truth value of the ellipsoid handed to the constructor: None
\* (held as <<>>) and the empty list are false, <<radii>> is true.
Truthy(ellipsoid) == ellipsoid # <<>> /\ ellipsoid[1] # <<>>

\* seq[:stop], for stop >= 0.
Slice(seq, stop) == SubSeq(seq, 1, IF stop < Len(seq) THEN stop ELSE Len(seq))

\* The radii add_ground_station unpacks into a, b: the slice [:1] of a custom
\* ellipsoid, else the two default radii.
semi_axes(prop) == IF Truthy(prop[1]) THEN Slice(prop[1][1], 1) ELSE <<6378137, 6378137>>

\* ------------------------------------------------------------------ inputs
\* (start, end) of the extractor's window, in days: start before end, start
\* equal to end, and start after end (the constructor takes any two times).
Windows == {<<1, 3>>, <<2, 2>>, <<3, 1>>}
\* Epochs of the orbits handed to add_orbit, in days.
OrbitEpochs == {0, 2, 4}
\* The N handed to add_orbit: <<>> for N=None, else <<N>>.
SampleCounts == {<<>>, <<1>>, <<3>>}
\* **kwargs of from_parameters and from_relative (NoneQ: keyword not given).
NoKwargs == [rotational_period |-> NoneQ, mass |-> NoneQ]
WithPeriod == [rotational_period |-> Quantity(2, 1, "d"), mass |-> NoneQ]
WithMass == [rotational_period |-> NoneQ, mass |-> Quantity(5, 1, "kg")]
\* (k, R, kwargs) handed to from_parameters: the last k is in a unit of length.
FromParametersInputs ==
    {<<Quantity(4, 1, "km3 / s2"), Quantity(3, 1, "km"), NoKwargs>>,
     <<Quantity(4, 1, "km3 / s2"), Quantity(3, 1, "km"), WithPeriod>>,
     <<Quantity(4, 1, "km3 / s2"), Quantity(3, 1, "km"), WithMass>>,
     <<Quantity(4, 1, "km"), Quantity(3, 1, "km"), NoKwargs>>}
\* (k, R, kwargs) handed to from_relative: ratios, NoneR for one not given.
FromRelativeInputs ==
    {<<Rat(2, 1), Rat(1, 2), NoKwargs>>,
     <<Rat(3, 2), Rat(3, 1), WithMass>>,
     <<NoneR, Rat(1, 2), NoKwargs>>,
     <<Rat(2, 1), NoneR, NoKwargs>>,
     <<NoneR, NoneR, NoKwargs>>}
\* Attributes read from a body.
Attributes == {"mass", "angular_velocity", "rho0", "H0"}
\* Keyword options of add_orbit, each held as the text of its value.
NoOptions ==
    [id_id |-> None, id_name |-> None, id_description |-> None,
     path_pixel_offset |-> None, path_color |-> None, path_width |-> None,
     path_show |-> None, label_fill_color |-> None, label_outline_color |-> None,
     label_font |-> None, label_text |-> None, label_show |-> None]
AllOptions ==
    [id_id |-> "sat", id_name |-> "Satellite", id_description |-> "A satellite",
     path_pixel_offset |-> "[5, 5]", path_color |-> "[255, 0, 0, 255]",
     path_width |-> "2", path_show |-> "True",
     label_fill_color |-> "[0, 255, 0, 255]", label_outline_color |-> "[0, 0, 255, 255]",
     label_font |-> "11pt Lucida Console", label_text |-> "sat", label_show |-> "True"]
Options == {NoOptions, AllOptions}

\* (ellipsoid, pr_map) handed to the constructor: neither given, or three
\* radii (a list, held in <<...>>; <<>> is None) with the URL of a map.
NoCustomProps == << <<>>, None >>
CustomEllipsoid == << << <<5, 3, 3>> >>, "map.png" >>
\* (window, (ellipsoid, pr_map)) of the extractors built: every window without
\* an ellipsoid, and the first window with one.
Constructions ==
    {<<w, NoCustomProps>> : w \in Windows} \cup {<< <<1, 3>>, CustomEllipsoid >>}
\* Keyword options of add_ground_station, each held as the text of its value
\* (label_show defaults to True).
NoStationOptions ==
    [id_name |-> None, id_description |-> None, label_fill_color |-> None,
     label_font |-> None, label_outline_color |-> None, label_text |-> None,
     label_show |-> "True"]
NamedOnly == [NoStationOptions EXCEPT !.id_name = "Station"]
NamedAndDescribed ==
    [NoStationOptions EXCEPT !.id_name = "Station", !.id_description = "A station",
                             !.label_text = "GS"]
\* (pos, options) handed to add_ground_station: two angles; an angle and a
\* plain number in either order; one angle; three angles.
GroundStationInputs ==
    {<< <<Quantity(90, 1, "deg"), Quantity(0, 1, "deg")>>, NamedOnly >>,
     << <<Quantity(0, 1, "deg"), Quantity(90, 1, "deg")>>, NamedAndDescribed >>,
     << <<Quantity(0, 1, "deg"), Rat(0, 1)>>, NoStationOptions >>,
     << <<Rat(0, 1), Quantity(0, 1, "deg")>>, NoStationOptions >>,
     << <<Quantity(0, 1, "deg")>>, NoStationOptions >>,
     << <<Quantity(0, 1, "deg"), Quantity(0, 1, "deg"), Quantity(0, 1, "deg")>>,
        NoStationOptions >>}

\* The bodies the calls below take as reference, attractor or receiver.
Picked == {registry["Earth"]} \cup {made[j] : j \in 1..Len(made)}

\* -------------------------------------------------------------------- Init
\* The bodies module imported and one CZMLExtractor(start, end, N, ellipsoid,
\* pr_map) built.
Init ==
    /\ registry = Registry
    /\ made = <<>>
    /\ \E c \in Constructions :
          /\ start_epoch = format_date(Time(c[1][1], "iso"))
          /\ end_epoch = format_date(Time(c[1][2], "iso"))
          /\ cust_prop = c[2]
    /\ N = 2
    /\ orbits = <<>>
    /\ i = 0
    /\ gs_n = 0
    /\ cust_czml =
          (LET cc == Assign(EmptyDict, Key(-1), CUSTOM_PACKET)
           IN  IF cust_prop[1] # <<>> /\ cust_prop[2] # None
               THEN _change_custom_params(cc, cust_prop[1][1], cust_prop[2])
               ELSE cc)
    /\ czml = _init_czml_(EmptyDict, start_epoch, end_epoch)
    /\ res = [op |-> "init", arg |-> None, status |-> "ok", exc |-> None, val |-> None]
    /\ calls = 0

\* ----------------------------------------------------------------- actions
Raise(op, arg, exc) == [op |-> op, arg |-> arg, status |-> "raise", exc |-> exc, val |-> None]
Return(op, arg, val) == [op |-> op, arg |-> arg, status |-> "ok", exc |-> None, val |-> val]

\* Body.from_parameters(parent, k, name, symbol, R, **kwargs)
FromParameters(parent, k, name, symbol, R, kwargs) ==
    LET arg == [parent |-> parent, k |-> k, name |-> name, symbol |-> symbol,
                R |-> R, kwargs |-> kwargs]
    IN  /\ calls < MaxCalls
        /\ calls' = calls + 1
        /\ IF ~quantity_input(k, R)
           THEN /\ res' = Raise("from_parameters", arg, "UnitsError")
                /\ UNCHANGED <<bodyVars, extractorVars>>
           ELSE /\ made' = Append(made, from_parameters(parent, k, name, symbol, R, kwargs))
                /\ res' = Return("from_parameters", arg, Len(made) + 1)
                /\ UNCHANGED <<registry, extractorVars>>

\* A faulty variant of from_relative: the reference itself is rescaled (k and
\* R multiplied in place) before the new body is built from it.
FromRelative_in_place(reference, k, R, kwargs) ==
    LET arg    == [reference |-> reference, k |-> k, R |-> R, kwargs |-> kwargs]
        scaled == [reference EXCEPT !.k = QScale(k, reference.k),
                                    !.R = QScale(R, reference.R)]
    IN  /\ calls < MaxCalls
        /\ calls' = calls + 1
        /\ IF k = NoneR \/ R = NoneR
           THEN /\ res' = Raise("from_relative", arg, "TypeError")
                /\ UNCHANGED <<bodyVars, extractorVars>>
           ELSE /\ registry' = [b \in DOMAIN registry |->
                                  IF registry[b] = reference THEN scaled ELSE registry[b]]
                /\ made' = Append([j \in 1..Len(made) |->
                                      IF made[j] = reference THEN scaled ELSE made[j]],
                                  from_relative(reference, None, k, None, None, R, kwargs))
                /\ res' = Return("from_relative", arg, Len(made) + 1)
                /\ UNCHANGED extractorVars

\* Body.from_relative(reference, k=k, R=R, **kwargs): None times a quantity is
\* a TypeError, raised at the first product that has a None.
FromRelative(reference, k, R, kwargs) ==
    LET arg == [reference |-> reference, k |-> k, R |-> R, kwargs |-> kwargs]
    IN  /\ calls < MaxCalls
        /\ calls' = calls + 1
        /\ IF k = NoneR \/ R = NoneR
           THEN /\ res' = Raise("from_relative", arg, "TypeError")
                /\ UNCHANGED <<bodyVars, extractorVars>>
           ELSE /\ made' = Append(made,
                              from_relative(reference, None, k, None, None, R, kwargs))
                /\ res' = Return("from_relative", arg, Len(made) + 1)
                /\ UNCHANGED <<registry, extractorVars>>

\* body.attr, for a field, a property or a name the class does not have.
ReadAttribute(self, attr) ==
    /\ calls < MaxCalls
    /\ calls' = calls + 1
    /\ res' = IF HasAttr(self, attr)
              THEN Return("getattr", [self |-> self, attr |-> attr], GetAttr(self, attr))
              ELSE Raise("getattr", [self |-> self, attr |-> attr], "AttributeError")
    /\ UNCHANGED <<bodyVars, extractorVars>>

\* CZMLExtractor.add_orbit(orbit, N, **options).
AddOrbit(orbit, n, opt) ==
    LET arg   == [orbit |-> orbit, N |-> n, options |-> opt]
        N_    == IF n = <<>> THEN N ELSE n[1]
        early == orbit.epoch.jd < start_epoch.jd
        late  == ~early /\ orbit.epoch.jd > end_epoch.jd
        orb   == IF early THEN Orbit_propagate(orbit, TimeDiff(start_epoch, orbit.epoch))
                 ELSE orbit
        orbs  == Append(orbits, <<orb, N_, orb.epoch>>)
        c1    == _init_orbit_packet_(czml, orbs, start_epoch, end_epoch, i)
        c2    == _change_id_params_(c1, i, opt.id_id, opt.id_name, opt.id_description)
        c3    == _change_path_params_(c2, i, opt.path_pixel_offset, opt.path_color,
                                      opt.path_width, opt.path_show)
        c4    == _change_label_params_(c3, i, opt.label_fill_color, opt.label_outline_color,
                                       opt.label_font, opt.label_text, opt.label_show)
    IN  /\ calls < MaxCalls
        /\ calls' = calls + 1
        /\ IF late
           THEN /\ res' = Raise("add_orbit", arg, "ValueError")
                /\ UNCHANGED <<bodyVars, extractorVars>>
           ELSE /\ orbits' = orbs
                /\ czml' = c4
                /\ i' = i + 1
                /\ res' = Return("add_orbit", arg, i)
                /\ UNCHANGED <<bodyVars, start_epoch, end_epoch, N, gs_n, cust_prop, cust_czml>>

\* CZMLExtractor.add_ground_station(pos, **options).  The test of pos looks at
\* pos[0] twice, and a, b are unpacked from the slice of the ellipsoid;
\* outcome is what the conversion to cartesian does (to_cartesian_outcomes).
AddGroundStation(pos, opt, outcome) ==
    LET arg   == [pos |-> pos, options |-> opt]
        valid == /\ Len(pos) = 2
                 /\ isinstance_Quantity(pos[1])
                 /\ isinstance_Quantity(pos[1])
        axes  == semi_axes(cust_prop)
        cart  == ellipsoidal_to_cartesian(axes[1], axes[2], pos[1], pos[2])
        c1    == _init_ground_station_packet_(czml, start_epoch, end_epoch, gs_n, cart)
        c2    == _change_ground_station_params_(c1, gs_n, opt.id_name, opt.id_description,
                     opt.label_fill_color, opt.label_font, opt.label_outline_color,
                     opt.label_text, opt.label_show)
    IN  /\ calls < MaxCalls
        /\ calls' = calls + 1
        /\ IF ~valid
           THEN /\ res' = Raise("add_ground_station", arg, "TypeError")
                /\ UNCHANGED <<bodyVars, extractorVars>>
           ELSE IF Len(axes) # 2
           THEN /\ res' = Raise("add_ground_station", arg, "ValueError")
                /\ UNCHANGED <<bodyVars, extractorVars>>
           ELSE IF outcome # "ok"
           THEN /\ res' = Raise("add_ground_station", arg, outcome)
                /\ UNCHANGED <<bodyVars, extractorVars>>
           ELSE /\ czml' = c2
                /\ gs_n' = gs_n + 1
                /\ res' = Return("add_ground_station", arg,
                                 [a |-> axes[1], b |-> axes[2], station |-> gs_n])
                /\ UNCHANGED <<bodyVars, start_epoch, end_epoch, N, orbits, i,
                               cust_prop, cust_czml>>

Next ==
    \/ \E a \in FromParametersInputs : FromParameters("Earth", a[1], "X", "x", a[2], a[3])
    \/ \E reference \in Picked, a \in FromRelativeInputs :
          FromRelative(reference, a[1], a[2], a[3])
    \/ \E self \in Picked, attr \in Attributes : ReadAttribute(self, attr)
    \/ \E e \in OrbitEpochs, n \in SampleCounts, opt \in Options :
          AddOrbit([attractor |-> registry["Earth"], r |-> <<7, 0, 0>>, v |-> <<0, 1, 0>>,
                    epoch |-> Time(e, "iso")], n, opt)
    \/ \E g \in GroundStationInputs :
          \E outcome \in (IF Len(g[1]) = 2 THEN to_cartesian_outcomes(g[1][1], g[1][2])
                          ELSE {"ok"}) :
             AddGroundStation(g[1], g[2], outcome)

Spec == Init /\ [][Next]_vars

\* ================================================================== claims
\* cartesian of the packet of the j-th orbit added (orbits are numbered from 0
\* in the extractor, from 1 here).
Cartesian(j) == czml[Key(j - 1)]["position"]["cartesian"]
\* Seconds from the j-th recorded orbit's epoch to the extractor's end epoch.
Span(j) == (end_epoch.jd - orbits[j][3].jd) * 86400

C2_AngularVelocityZeroPeriodFails ==
    (res.op = "getattr" /\ res.arg.attr = "angular_velocity") =>
        LET p == res.arg.self.rotational_period
        IN  IF p.n = 0
            THEN res.status = "raise"
            ELSE /\ res.status = "ok"
                 /\ res.val.pi = 1
                 /\ res.val.n * p.n * 86400 = 2 * res.val.d * p.d

\* The names of the predefined bodies.
PredefinedNames ==
    {"Sun", "Mercury", "Venus", "Earth", "Mars", "Jupiter", "Saturn", "Uranus",
     "Neptune", "Pluto", "Moon"}
\* The body reached from b by following at most n parent links.
RECURSIVE Ancestor(_, _)
Ancestor(b, n) ==
    IF n = 0 \/ registry[b].parent = None THEN b ELSE Ancestor(registry[b].parent, n - 1)
\* C3: the registry is exactly the eleven predefined bodies; the Sun has no
\* parent, the Moon's parent is the Earth, every other body's parent is the
\* Sun; so parent links from any body end at the Sun in at most two steps.
C3_RegistryParents ==
    /\ DOMAIN registry = PredefinedNames
    /\ \A b \in DOMAIN registry :
          /\ registry[b].name = b
          /\ registry[b].parent = (CASE b = "Sun" -> None [] b = "Moon" -> "Earth"
                                     [] OTHER -> "Sun")
          /\ registry[b].parent \in DOMAIN registry \cup {None}
          /\ Ancestor(b, 2) = "Sun"
          /\ registry[Ancestor(b, 2)].parent = None

\* C3's case: bodies have been built and the Moon's chain is Moon, Earth, Sun.
C3_Witness ==
    /\ Len(made) >= 1
    /\ Ancestor("Moon", 1) = "Earth" /\ Ancestor("Moon", 2) = "Sun"

\* mass x G = k, in exact fractions.
TimesGIsK(body) == body.mass.n * G.n * body.k.d = body.k.n * body.mass.d * G.d
\* C4: a body built without a mass has mass = k / G (mass x G = k) for the k
\* it was built with; a body built with a mass has that mass.  Stated for the
\* predefined bodies and for the body the last from_parameters or
\* from_relative call built.
C4_MassFromK ==
    /\ \A b \in {"Mercury", "Venus", "Mars", "Saturn", "Uranus", "Neptune", "Pluto", "Moon"} :
          TimesGIsK(registry[b])
    /\ registry["Sun"].mass = _q(constants.M_sun)
    /\ registry["Earth"].mass = _q(constants.M_earth)
    /\ registry["Jupiter"].mass = _q(constants.M_jupiter)
    /\ (res.op \in {"from_parameters", "from_relative"} /\ res.status = "ok") =>
          IF res.arg.kwargs.mass = NoneQ
          THEN /\ TimesGIsK(made[res.val])
               /\ res.op = "from_relative" =>
                     made[res.val].k = QScale(res.arg.k, res.arg.reference.k)
          ELSE made[res.val].mass = res.arg.kwargs.mass

\* C4's case: from_relative has built a body without a mass.
C4_Witness ==
    /\ res.op = "from_relative" /\ res.status = "ok"
    /\ res.arg.kwargs.mass = NoneQ

\* C5: no call changes a body that exists: the predefined bodies stay as they
\* are, and so does every body built earlier.
C5_BodiesNeverMutated ==
    [][/\ registry' = registry
       /\ Len(made') >= Len(made)
       /\ \A j \in 1..Len(made) : made'[j] = made[j]]_vars

\* C5's case: a body built earlier has served as the reference of a
\* from_relative call that built another.
C5_Witness ==
    /\ res.op = "from_relative" /\ res.status = "ok"
    /\ Len(made) = 2 /\ res.arg.reference = made[1]

\* C6: from_relative returns a body whose k and R are the ratios times the
\* reference's, and the call succeeds also when a ratio is not supplied.
C6_FromRelativeAnyRatios ==
    res.op = "from_relative" =>
        /\ res.status = "ok"
        /\ res.arg.k # NoneR =>
              made[res.val].k = [res.arg.reference.k EXCEPT
                  !.n = Rat(res.arg.k.n * res.arg.reference.k.n,
                            res.arg.k.d * res.arg.reference.k.d).n,
                  !.d = Rat(res.arg.k.n * res.arg.reference.k.n,
                            res.arg.k.d * res.arg.reference.k.d).d]
        /\ res.arg.R # NoneR =>
              made[res.val].R = [res.arg.reference.R EXCEPT
                  !.n = Rat(res.arg.R.n * res.arg.reference.R.n,
                            res.arg.R.d * res.arg.reference.R.d).n,
                  !.d = Rat(res.arg.R.n * res.arg.reference.R.n,
                            res.arg.R.d * res.arg.reference.R.d).d]

\* C7: add_orbit with an orbit whose epoch is later than the end epoch raises
\* and leaves orbits, i and czml as they were.
C7_LateOrbitRejected ==
    [][(res'.op = "add_orbit" /\ calls' = calls + 1
          /\ res'.arg.orbit.epoch.jd > end_epoch.jd) =>
       (res'.status = "raise" /\ orbits' = orbits /\ i' = i /\ czml' = czml)]_vars

\* C8: the predefined Earth has the fields rho0 and H0, so reading them
\* succeeds.
C8_EarthHasDragFields ==
    (res.op = "getattr" /\ res.arg.self = registry["Earth"]
        /\ res.arg.attr \in {"rho0", "H0"}) => res.status = "ok"

\* pos is a pair of quantities.
ValidPos(pos) ==
    Len(pos) = 2 /\ isinstance_Quantity(pos[1]) /\ isinstance_Quantity(pos[2])

\* C11: add_ground_station with a pos that is not a pair of two quantities
\* (wrong length, or either element not a quantity) raises TypeError and
\* leaves the extractor as it was: no packet is added, gs_n is not incremented.
C11_InvalidPosRejected ==
    [][(res'.op = "add_ground_station" /\ calls' = calls + 1
          /\ ~ValidPos(res'.arg.pos)) =>
       (/\ res'.status = "raise" /\ res'.exc = "TypeError"
        /\ czml' = czml /\ gs_n' = gs_n)]_vars

\* C12: add_ground_station with a pair of quantities succeeds; the station's
\* cartesian position is computed from the first two radii of the custom
\* ellipsoid when the extractor was built with one, and from
\* a = b = 6378137.0 when it was not.
C12_EllipsoidAxesUsed ==
    (res.op = "add_ground_station" /\ ValidPos(res.arg.pos)) =>
        /\ res.status = "ok"
        /\ res.val.a = (IF Truthy(cust_prop[1]) THEN cust_prop[1][1][1] ELSE 6378137)
        /\ res.val.b = (IF Truthy(cust_prop[1]) THEN cust_prop[1][1][2] ELSE 6378137)
        /\ czml[GSKey(res.val.station)]["position"]["cartesian"]
              = ellipsoidal_to_cartesian(res.val.a, res.val.b,
                                         res.arg.pos[1], res.arg.pos[2])

\* C13: after add_ground_station with id_name and id_description, the
\* station's packet has name = id_name and description = id_description; a
\* description never changes the name.
C13_StationNameAndDescription ==
    (res.op = "add_ground_station" /\ res.status = "ok") =>
        LET packet == czml[GSKey(res.val.station)]
            opt    == res.arg.options
        IN  /\ opt.id_name # None =>
                  ("name" \in DOMAIN packet /\ packet["name"] = opt.id_name)
            /\ opt.id_description # None =>
                  /\ "description" \in DOMAIN packet
                  /\ packet["description"] = opt.id_description

\* C14: every recorded orbit has its epoch within [start_epoch, end_epoch]:
\* add_orbit records an orbit earlier than start_epoch propagated forward by
\* (start_epoch - epoch), with epoch start_epoch; it records an orbit within
\* the window as given; it never records an orbit later than end_epoch.
C14_RecordedEpochsInWindow ==
    /\ \A j \in 1..Len(orbits) :
          start_epoch.jd <= orbits[j][3].jd /\ orbits[j][3].jd <= end_epoch.jd
    /\ res.op = "add_orbit" =>
          LET given == res.arg.orbit
          IN  /\ given.epoch.jd < start_epoch.jd =>
                    /\ res.status = "ok"
                    /\ orbits[res.val + 1][3].jd = start_epoch.jd
                    /\ orbits[res.val + 1][1]
                          = Orbit_propagate(given, TimeDiff(start_epoch, given.epoch))
              /\ (start_epoch.jd <= given.epoch.jd /\ given.epoch.jd <= end_epoch.jd) =>
                    /\ res.status = "ok"
                    /\ orbits[res.val + 1][1] = given
                    /\ orbits[res.val + 1][3] = given.epoch
              /\ given.epoch.jd > end_epoch.jd => res.status = "raise"
====
